---- MODULE Spec2Model ----
(***************************************************************************)
(* Model of src/index.ts: the Vue plugin that globs locale files into a   *)
(* catalogue (importTranslations, shouldIgnore) and registers the         *)
(* translation helper __ on top of a Lang.js translator.                  *)
(*                                                                         *)
(* Strings are sequences of one-character strings, so that the regular    *)
(* expressions, template strings, startsWith and substr of the source are *)
(* computed character by character.                                       *)
(***************************************************************************)
EXTENDS Integers, Sequences, FiniteSets, TLC

VARIABLES files, ignore, globalTranslationsKey, catalogue, idx, pc, messages, call

vars == <<files, ignore, globalTranslationsKey, catalogue, idx, pc, messages, call>>

\* Largest number of files the bundler context enumerates in the model.
MaxFiles == 2

(***************************************************************************)
(* Characters and literal strings                                          *)
(***************************************************************************)
Lower == {"a","b","c","d","e","f","g","h","i","j","k","l","m",
          "n","o","p","q","r","s","t","u","v","w","x","y","z"}
Upper == {"A","B","C","D","E","F","G","H","I","J","K","L","M",
          "N","O","P","Q","R","S","T","U","V","W","X","Y","Z"}
Digit == {"0","1","2","3","4","5","6","7","8","9"}

\* The character class [A-Za-z0-9-_] of both path patterns.
IdChar == Lower \cup Upper \cup Digit \cup {"-", "_"}

\* The character class [\w-] of the key pattern.
WordHyphen == Lower \cup Upper \cup Digit \cup {"_"} \cup {"-"}

\* Characters the regular-expression dot does not match.
LineTerminator == {"\n", "\r"}

PHP == <<"p","h","p">>
JSON == <<"j","s","o","n">>
DOT == <<".">>
UNDEFINED_TEXT == <<"u","n","d","e","f","i","n","e","d">>

\* A JavaScript value that is either a string or undefined.
Undefined == [def |-> FALSE, str |-> <<>>]
Str(s) == [def |-> TRUE, str |-> s]

\* String conversion inside a template literal: undefined prints as "undefined".
ToText(v) == IF v.def THEN v.str ELSE UNDEFINED_TEXT

\* `${a}.${b}`
DotKey(a, b) == ToText(a) \o DOT \o ToText(b)

\* True when the word w occurs in s at position t.
HasAt(s, t, w) == /\ t >= 1
                  /\ t + Len(w) - 1 <= Len(s)
                  /\ SubSeq(s, t, t + Len(w) - 1) = w

\* The group (?:php|json) matched at position t.
ExtAt(s, t) == HasAt(s, t, PHP) \/ HasAt(s, t, JSON)

\* All characters of s at positions a..b are identifier characters.
IdRun(s, a, b) == /\ a >= 1
                  /\ b <= Len(s)
                  /\ a <= b
                  /\ \A t \in a..b : s[t] \in IdChar

SetMin(S) == CHOOSE x \in S : \A y \in S : x <= y
SetMax(S) == CHOOSE x \in S : \A y \in S : x >= y

\* Positions where the literal "./" starts.
DotSlashStarts(s) == {p \in 1..Len(s) : HasAt(s, p, <<".", "/">>)}

(***************************************************************************)
(* /\.\/([A-Za-z0-9-_]+).(?:php|json)/.exec(file) ?? []                    *)
(* Unanchored; the dot before the extension is unescaped and matches any   *)
(* character. The leftmost start wins, then the longest first group.       *)
(***************************************************************************)
RootMatchAt(file, p, n) ==
    /\ HasAt(file, p, <<".", "/">>)
    /\ IdRun(file, p + 2, p + 1 + n)
    /\ p + 2 + n <= Len(file)
    /\ file[p + 2 + n] \notin LineTerminator
    /\ ExtAt(file, p + 3 + n)

RootExec(file) ==
    LET starts == {p \in DotSlashStarts(file) :
                       \E n \in 1..Len(file) : RootMatchAt(file, p, n)}
    IN  IF starts = {}
        THEN [isGlobal |-> FALSE, rootLocale |-> Undefined]
        ELSE LET p == SetMin(starts)
                 n == SetMax({m \in 1..Len(file) : RootMatchAt(file, p, m)})
             IN  [isGlobal |-> TRUE,
                  rootLocale |-> Str(SubSeq(file, p + 2, p + 1 + n))]

(***************************************************************************)
(* /\.\/([A-Za-z0-9-_]+)\/([A-Za-z0-9-_]+).(?:php|json)/.exec(file) ?? []  *)
(***************************************************************************)
ScopedMatchAt(file, p, n1, n2) ==
    /\ HasAt(file, p, <<".", "/">>)
    /\ IdRun(file, p + 2, p + 1 + n1)
    /\ HasAt(file, p + 2 + n1, <<"/">>)
    /\ IdRun(file, p + 3 + n1, p + 2 + n1 + n2)
    /\ p + 3 + n1 + n2 <= Len(file)
    /\ file[p + 3 + n1 + n2] \notin LineTerminator
    /\ ExtAt(file, p + 4 + n1 + n2)

ScopedExec(file) ==
    LET lens == 1..Len(file)
        starts == {p \in DotSlashStarts(file) :
                       \E n1 \in lens : /\ HasAt(file, p + 2 + n1, <<"/">>)
                                        /\ \E n2 \in lens : ScopedMatchAt(file, p, n1, n2)}
    IN  IF starts = {}
        THEN [isScoped |-> FALSE, locale |-> Undefined, domain |-> Undefined]
        ELSE LET p == SetMin(starts)
                 n1 == SetMax({m \in lens : /\ HasAt(file, p + 2 + m, <<"/">>)
                                            /\ \E n2 \in lens : ScopedMatchAt(file, p, m, n2)})
                 n2 == SetMax({m \in lens : ScopedMatchAt(file, p, n1, m)})
             IN  [isScoped |-> TRUE,
                  locale |-> Str(SubSeq(file, p + 2, p + 1 + n1)),
                  domain |-> Str(SubSeq(file, p + 3 + n1, p + 2 + n1 + n2))]

(***************************************************************************)
(* The ignore option                                                       *)
(***************************************************************************)
\* An ignore option: absent, a Map (the declared IgnoreList type) or a plain
\* object; entries is the sequence of <<locale, list of domains>> it holds.
NoIgnore == [rep |-> "undefined", entries |-> <<>>]
MapIgnore(e) == [rep |-> "Map", entries |-> e]
ObjectIgnore(e) == [rep |-> "Object", entries |-> e]

\* Object.entries(ignore): the own enumerable string-keyed properties. A Map
\* keeps its entries in an internal slot and has no such properties.
ObjectEntries(ign) == IF ign.rep = "Object" THEN ign.entries ELSE <<>>

\* ignoreDomains.includes(domain)
Includes(list, v) == \E t \in 1..Len(list) : v.def /\ list[t] = v.str

\* shouldIgnore(ignore, locale, domain)
shouldIgnore(ign, locale, domain) ==
    \E t \in 1..Len(ObjectEntries(ign)) :
        LET ignoreLocale == ObjectEntries(ign)[t][1]
            ignoreDomains == ObjectEntries(ign)[t][2]
        IN  /\ locale.def
            /\ locale.str = ignoreLocale
            /\ Includes(ignoreDomains, domain)

(***************************************************************************)
(* The catalogue                                                           *)
(***************************************************************************)
\* files(file): the module the bundler registered under the path. Parsed
\* content is opaque; every file carries its own.
Content(file) == [module |-> file]

EmptyCatalogue == [k \in {} |-> Content(<<>>)]

\* Put as it would be if an entry already present were kept.
Put_KeepFirst(cat, key, value) ==
    [k \in (DOMAIN cat) \cup {key} |->
        IF k \in DOMAIN cat THEN cat[k] ELSE value]

\* catalogue[key] = value
Put(cat, key, value) ==
    [k \in (DOMAIN cat) \cup {key} |-> IF k = key THEN value ELSE cat[k]]

\* The condition  !ignore || !shouldIgnore(ignore, locale, domain)
Kept(ign, locale, domain) ==
    ign.rep = "undefined" \/ ~shouldIgnore(ign, locale, domain)

\* The callback as it would be if the root-level entry were keyed by the
\* locale alone.
ForEachBody_RootBareLocale(cat, file, ign, gkey) ==
    LET root == RootExec(file)
        scoped == ScopedExec(file)
    IN  IF root.isGlobal
        THEN Put(cat, ToText(root.rootLocale), Content(file))
        ELSE IF Kept(ign, scoped.locale, scoped.domain)
             THEN Put(cat, DotKey(scoped.locale, scoped.domain), Content(file))
             ELSE cat

\* The callback as it would be if root-level files went through the ignore
\* list under the global key.
ForEachBody_RootIgnored(cat, file, ign, gkey) ==
    LET root == RootExec(file)
        scoped == ScopedExec(file)
    IN  IF root.isGlobal
        THEN IF Kept(ign, root.rootLocale, Str(gkey))
             THEN Put(cat, DotKey(root.rootLocale, Str(gkey)), Content(file))
             ELSE cat
        ELSE IF Kept(ign, scoped.locale, scoped.domain)
             THEN Put(cat, DotKey(scoped.locale, scoped.domain), Content(file))
             ELSE cat

\* One call of the forEach callback on file.
ForEachBody(cat, file, ign, gkey) ==
    LET root == RootExec(file)
        scoped == ScopedExec(file)
    IN  IF root.isGlobal
        THEN Put(cat, DotKey(root.rootLocale, Str(gkey)), Content(file))
        ELSE IF Kept(ign, scoped.locale, scoped.domain)
             THEN Put(cat, DotKey(scoped.locale, scoped.domain), Content(file))
             ELSE cat

RECURSIVE ForEachFrom(_, _, _, _, _)
ForEachFrom(cat, fs, t, ign, gkey) ==
    IF t > Len(fs) THEN cat
    ELSE ForEachFrom(ForEachBody(cat, fs[t], ign, gkey), fs, t + 1, ign, gkey)

\* importTranslations({ ignore, globalTranslationsKey }) over the keys fs.
importTranslations(fs, ign, gkey) == ForEachFrom(EmptyCatalogue, fs, 1, ign, gkey)

(***************************************************************************)
(* The translation helper __                                               *)
(***************************************************************************)
\* key.match(/^[\w-]+(?:\.[\w-]+)+$/): scan of the whole key; inSeg says the
\* current segment has a character, dotted that a separator was passed.
RECURSIVE KeyScan(_, _, _, _)
KeyScan(key, t, inSeg, dotted) ==
    IF t > Len(key) THEN inSeg /\ dotted
    ELSE IF key[t] \in WordHyphen THEN KeyScan(key, t + 1, TRUE, dotted)
    ELSE IF key[t] = "." /\ inSeg THEN KeyScan(key, t + 1, FALSE, TRUE)
    ELSE FALSE

KeyMatch(key) == KeyScan(key, 1, FALSE, FALSE)

\* result.startsWith(prefix)
StartsWith(s, prefix) == HasAt(s, 1, prefix)

\* result.substr(from), from counted from 0
Substr(s, from) == SubSeq(s, from + 1, Len(s))

\* The key handed to i18n.get.
LookupKey(key, gkey) ==
    IF KeyMatch(key) THEN key ELSE DotKey(Str(gkey), Str(key))

\* Returned as it would be if the cut left the separating dot in place.
Returned_KeepDot(key, result, gkey) ==
    IF KeyMatch(key) THEN result
    ELSE IF StartsWith(result, gkey) THEN Substr(result, Len(gkey))
    ELSE result

\* Returned as it would be if the prefix were cut for every key.
Returned_AlwaysStrip(key, result, gkey) ==
    IF StartsWith(result, gkey) THEN Substr(result, Len(gkey) + 1)
    ELSE result

\* The value __ returns, given what i18n.get returned.
Returned(key, result, gkey) ==
    IF KeyMatch(key) THEN result
    ELSE IF StartsWith(result, gkey) THEN Substr(result, Len(gkey) + 1)
    ELSE result

\* i18n.get(key, ...args) of the external translator: the message when it
\* has one, the key itself when it has none.
Miss == [hit |-> FALSE, text |-> <<>>]
Hit(text) == [hit |-> TRUE, text |-> text]
I18nGet(key, outcome) == IF outcome.hit THEN outcome.text ELSE key

(***************************************************************************)
(* Inputs                                                                  *)
(***************************************************************************)
EN == <<"e","n">>
FR == <<"f","r">>
AUTH == <<"a","u","t","h">>
PHPUNIT == <<"p","h","p","u","n","i","t">>
GLOBAL == <<"_","_","g","l","o","b","a","l","_","_">>

AllPaths ==
    { <<".","/","e","n",".","p","h","p">>,
      <<".","/","e","n",".","j","s","o","n">>,
      <<".","/","e","n","/","a","u","t","h",".","p","h","p">>,
      <<".","/","e","n","/","a","u","t","h",".","j","s","o","n">>,
      <<".","/","e","n","/","j","s","o","n",".","p","h","p">>,
      <<".","/","f","r","/","p","h","p","u","n","i","t",".","j","s","o","n">>,
      <<".","/","a",".","b",".","j","s","o","n">>,
      <<".","/","p","k","g","/","e","n","/","a","u","t","h",".","p","h","p">>,
      <<".","/","e","n","/","a","u","t","h",".","t","x","t">> }

\* require.context('@lang', true, /\.(php|json)$/): the paths that end in
\* one of the two extensions.
ContextTest(path) ==
    \/ HasAt(path, Len(path) - 3, DOT \o PHP)
    \/ HasAt(path, Len(path) - 4, DOT \o JSON)

ContextKeys == {path \in AllPaths : ContextTest(path)}

\* files.keys(): distinct paths in some order.
KeyLists ==
    {fs \in UNION {[1..n -> ContextKeys] : n \in 0..MaxFiles} :
        \A a, b \in 1..Len(fs) : a # b => fs[a] # fs[b]}

IgnoreOptions ==
    { NoIgnore,
      ObjectIgnore(<<>>),
      ObjectIgnore(<< <<EN, <<AUTH>> >> >>),
      ObjectIgnore(<< <<EN, <<AUTH, JSON, GLOBAL>> >>, <<FR, <<PHPUNIT>> >> >>),
      MapIgnore(<< <<EN, <<AUTH>> >> >>) }

GlobalKeys == {GLOBAL, AUTH}

CallKeys ==
    { <<"a","u","t","h",".","f","a","i","l","e","d">>,
      <<"a",".","b",".","c">>,
      <<"h","i">>,
      AUTH,
      <<"a",".">>,
      <<"a"," ","b">>,
      <<>> }

CallArgs == { <<>>, <<"replacements">>, <<"replacements", "locale">> }

Outcomes ==
    { Miss,
      Hit(<<"H","e","l","l","o">>),
      Hit(<<"a","u","t","h","o","r">>),
      Hit(AUTH),
      Hit(<<"a","u","t","h",".","o","k">>),
      Hit(GLOBAL) }

NoCall == [made |-> FALSE, key |-> <<>>, args |-> <<>>, getKey |-> <<>>,
           getArgs |-> <<>>, miss |-> FALSE, result |-> <<>>, ret |-> <<>>]

(***************************************************************************)
(* Install with discovery: importTranslations runs file by file            *)
(***************************************************************************)
Init ==
    /\ files \in KeyLists
    /\ ignore \in IgnoreOptions
    /\ globalTranslationsKey \in GlobalKeys
    /\ catalogue = EmptyCatalogue
    /\ idx = 1
    /\ pc = "import"
    /\ messages = EmptyCatalogue
    /\ call = NoCall

Step ==
    /\ pc = "import"
    /\ idx <= Len(files)
    /\ catalogue' = ForEachBody(catalogue, files[idx], ignore, globalTranslationsKey)
    /\ idx' = idx + 1
    /\ UNCHANGED <<files, ignore, globalTranslationsKey, pc, messages, call>>

\* The callback takes the isGlobal branch.
ImportGlobal ==
    /\ pc = "import"
    /\ idx <= Len(files)
    /\ RootExec(files[idx]).isGlobal
    /\ Step

\* The callback reaches the second pattern and writes the entry.
ImportScoped ==
    /\ pc = "import"
    /\ idx <= Len(files)
    /\ ~RootExec(files[idx]).isGlobal
    /\ Kept(ignore, ScopedExec(files[idx]).locale, ScopedExec(files[idx]).domain)
    /\ Step

\* The callback reaches the second pattern and the pair is ignored.
ImportIgnored ==
    /\ pc = "import"
    /\ idx <= Len(files)
    /\ ~RootExec(files[idx]).isGlobal
    /\ ~Kept(ignore, ScopedExec(files[idx]).locale, ScopedExec(files[idx]).domain)
    /\ Step

\* importTranslations returns and the translator is created on its result.
Install ==
    /\ pc = "import"
    /\ idx > Len(files)
    /\ pc' = "installed"
    /\ messages' = catalogue
    /\ UNCHANGED <<files, ignore, globalTranslationsKey, catalogue, idx, call>>

Next == ImportGlobal \/ ImportScoped \/ ImportIgnored \/ Install

Spec == Init /\ [][Next]_vars

(***************************************************************************)
(* Install with options.messages given, then calls of __                   *)
(***************************************************************************)
InitFacade ==
    /\ files = <<>>
    /\ ignore = NoIgnore
    /\ globalTranslationsKey \in GlobalKeys
    /\ catalogue = EmptyCatalogue
    /\ idx = 1
    /\ pc = "installed"
    /\ messages = EmptyCatalogue
    /\ call = NoCall

Underscore(key, args, outcome) ==
    LET getKey == LookupKey(key, globalTranslationsKey)
        result == I18nGet(getKey, outcome)
    IN  /\ pc = "installed"
        /\ call' = [made |-> TRUE, key |-> key, args |-> args, getKey |-> getKey,
                    getArgs |-> args, miss |-> ~outcome.hit, result |-> result,
                    ret |-> Returned(key, result, globalTranslationsKey)]
        /\ UNCHANGED <<files, ignore, globalTranslationsKey, catalogue, idx, pc, messages>>

\* __ on a key the pattern matches.
TranslateQualified ==
    \E key \in CallKeys, args \in CallArgs, outcome \in Outcomes :
        KeyMatch(key) /\ Underscore(key, args, outcome)

\* __ on any other key.
TranslateGlobal ==
    \E key \in CallKeys, args \in CallArgs, outcome \in Outcomes :
        ~KeyMatch(key) /\ Underscore(key, args, outcome)

NextFacade == TranslateQualified \/ TranslateGlobal

SpecFacade == InitFacade /\ [][NextFacade]_vars

(***************************************************************************)
(* Vocabulary of the properties: the path and key shapes of the            *)
(* specification, stated on the whole string and independently of the      *)
(* regular expressions above.                                              *)
(***************************************************************************)
IsIdent(x) == Len(x) >= 1 /\ \A t \in 1..Len(x) : x[t] \in IdChar

Extensions == {PHP, JSON}

\* The X for which path is ./X.<php|json>.
RootShapeLocales(path) ==
    {x \in {SubSeq(path, 3, b) : b \in 3..Len(path)} :
        /\ IsIdent(x)
        /\ \E e \in Extensions : path = <<".", "/">> \o x \o DOT \o e}

\* The <<L, D>> for which path is ./L/D.<php|json>.
ScopedShapePairs(path) ==
    {pr \in {<<SubSeq(path, 3, a), SubSeq(path, a + 2, b)>> :
                 a \in 3..Len(path), b \in 3..Len(path)} :
        /\ IsIdent(pr[1])
        /\ IsIdent(pr[2])
        /\ \E e \in Extensions :
               path = <<".", "/">> \o pr[1] \o <<"/">> \o pr[2] \o DOT \o e}

\* The (locale, domain) pairs an ignore list holds, whatever its container.
Pairs(ign) ==
    {pr \in UNION {{<<ign.entries[t][1], ign.entries[t][2][u]>> :
                       u \in 1..Len(ign.entries[t][2])} : t \in 1..Len(ign.entries)} : TRUE}

KeyOf(a, b) == a \o DOT \o b

\* The catalogue keys whose entry is the content of file.
KeysFrom(cat, file) == {k \in DOMAIN cat : cat[k] = Content(file)}

\* Two or more dot-separated segments of word or hyphen characters.
QualifiedShape(key) ==
    /\ Len(key) >= 3
    /\ \A t \in 1..Len(key) : key[t] \in WordHyphen \cup {"."}
    /\ \E t \in 1..Len(key) : key[t] = "."
    /\ key[1] # "."
    /\ key[Len(key)] # "."
    /\ \A t \in 1..(Len(key) - 1) : ~(key[t] = "." /\ key[t + 1] = ".")

\* The enumeration orders of the same file set.
Orders(fs) ==
    {gs \in KeyLists : /\ Len(gs) = Len(fs)
                       /\ {gs[t] : t \in 1..Len(gs)} = {fs[t] : t \in 1..Len(fs)}}

\* The positions of fs whose file, imported alone, writes key k.
Writers(fs, k, ign, gkey) ==
    {t \in 1..Len(fs) : k \in DOMAIN importTranslations(<<fs[t]>>, ign, gkey)}

Installed == pc = "installed"

(***************************************************************************)
(* Properties of the catalogue build (specification Spec)                  *)
(***************************************************************************)

\* C1: every enumerated file ./L/D.<php|json> whose pair (L, D) is not in the
\* ignore list has the key "L.D" in the returned catalogue, mapped to its
\* content, also when D begins with "php" or "json".
C1_ScopedFileImported ==
    Installed =>
        \A j \in 1..Len(files) : \A pr \in ScopedShapePairs(files[j]) :
            pr \notin Pairs(ignore) =>
                /\ KeyOf(pr[1], pr[2]) \in DOMAIN catalogue
                /\ catalogue[KeyOf(pr[1], pr[2])] = Content(files[j])

\* C2: a scoped file ./L/D.<ext> whose pair (L, D) is in the ignore list
\* contributes no entry to the catalogue.
C2_IgnoredFileContributesNothing ==
    Installed =>
        \A j \in 1..Len(files) : \A pr \in ScopedShapePairs(files[j]) :
            pr \in Pairs(ignore) => KeysFrom(catalogue, files[j]) = {}

\* C3 as stated: every enumerated root-level file ./X.<php|json> has the key
\* "X.<globalTranslationsKey>" mapped to its own content, whatever other files
\* are enumerated.
C3_RootFileOwnContent ==
    Installed =>
        \A j \in 1..Len(files) : \A x \in RootShapeLocales(files[j]) :
            /\ KeyOf(x, globalTranslationsKey) \in DOMAIN catalogue
            /\ catalogue[KeyOf(x, globalTranslationsKey)] = Content(files[j])

\* C3 amended: every enumerated root-level file ./X.<php|json> has the key
\* "X.<globalTranslationsKey>" in the catalogue, mapped to its own content or
\* to the content of a file enumerated after it.
C3_RootFileOwnOrLaterContent ==
    Installed =>
        \A j \in 1..Len(files) : \A x \in RootShapeLocales(files[j]) :
            /\ KeyOf(x, globalTranslationsKey) \in DOMAIN catalogue
            /\ \E j2 \in j..Len(files) :
                   catalogue[KeyOf(x, globalTranslationsKey)] = Content(files[j2])

\* Two root-level files of one locale were enumerated and the later one holds
\* the key.
C3_Witness ==
    /\ Installed
    /\ \E j, j2 \in 1..Len(files) :
           /\ j < j2
           /\ \E x \in RootShapeLocales(files[j]) \cap RootShapeLocales(files[j2]) :
                  /\ KeyOf(x, globalTranslationsKey) \in DOMAIN catalogue
                  /\ catalogue[KeyOf(x, globalTranslationsKey)] = Content(files[j2])

\* C7: an enumerated file whose path has neither the root-level nor the scoped
\* shape contributes no entry to the catalogue.
C7_UnrecognisedPathSkipped ==
    Installed =>
        \A j \in 1..Len(files) :
            (RootShapeLocales(files[j]) = {} /\ ScopedShapePairs(files[j]) = {})
                => KeysFrom(catalogue, files[j]) = {}

\* C8 as stated: the returned catalogue is the same for every order in which
\* the same files are enumerated.
C8_OrderIndependent ==
    Installed =>
        \A gs \in Orders(files) :
            importTranslations(gs, ignore, globalTranslationsKey) = catalogue

\* C8 amended: for every order of the same files the catalogue has the same
\* set of keys, and each key is mapped to the content of the last file in that
\* order that writes it; a key written by one file only has the same content
\* in every order.
C8_SameKeysLastWriterWins ==
    Installed =>
        \A gs \in Orders(files) :
            LET c == importTranslations(gs, ignore, globalTranslationsKey)
            IN  /\ DOMAIN c = DOMAIN catalogue
                /\ \A k \in DOMAIN c :
                       LET w == Writers(gs, k, ignore, globalTranslationsKey)
                       IN  /\ w # {}
                           /\ c[k] = Content(gs[SetMax(w)])
                           /\ (Cardinality(w) = 1 => c[k] = catalogue[k])

\* Two enumerated files write one key, and the opposite order yields another
\* catalogue.
C8_Witness ==
    /\ Installed
    /\ \E k \in DOMAIN catalogue :
           Cardinality(Writers(files, k, ignore, globalTranslationsKey)) >= 2
    /\ \E gs \in Orders(files) :
           importTranslations(gs, ignore, globalTranslationsKey) # catalogue

\* C9: the entry "X.<globalTranslationsKey>" of a root-level file ./X.<ext> is
\* in the catalogue from the callback that handled the file onwards, for every
\* ignore option, also one that lists locale X with the global key itself.
C9_RootFileNeverIgnored ==
    \A j \in 1..Len(files) :
        j < idx =>
            \A x \in RootShapeLocales(files[j]) :
                KeyOf(x, globalTranslationsKey) \in DOMAIN catalogue

\* A root-level file was imported under a plain-object ignore list that lists
\* its locale together with the global key.
C9_Witness ==
    /\ Installed
    /\ ignore.rep = "Object"
    /\ \E j \in 1..Len(files) : \E x \in RootShapeLocales(files[j]) :
           /\ <<x, globalTranslationsKey>> \in Pairs(ignore)
           /\ catalogue[KeyOf(x, globalTranslationsKey)] = Content(files[j])

\* C10: built over the same files and global key with another ignore list,
\* the catalogue differs only at keys "L.D" whose pair is in exactly one of the
\* two lists, absent from the build that ignores the pair and present in the
\* other; every other key and content is equal (two lists holding the same
\* pairs give equal catalogues).
C10_DiffersOnlyAsIgnored ==
    Installed =>
        \A other \in IgnoreOptions :
            LET c2 == importTranslations(files, other, globalTranslationsKey)
            IN  \A k \in (DOMAIN catalogue) \cup (DOMAIN c2) :
                    \/ /\ k \in DOMAIN catalogue
                       /\ k \in DOMAIN c2
                       /\ catalogue[k] = c2[k]
                    \/ \E pr \in Pairs(ignore) \ Pairs(other) :
                           /\ k = KeyOf(pr[1], pr[2])
                           /\ k \notin DOMAIN catalogue
                           /\ k \in DOMAIN c2
                    \/ \E pr \in Pairs(other) \ Pairs(ignore) :
                           /\ k = KeyOf(pr[1], pr[2])
                           /\ k \in DOMAIN catalogue
                           /\ k \notin DOMAIN c2

(***************************************************************************)
(* Properties of __ (specification SpecFacade)                             *)
(***************************************************************************)

\* C4: for a key k that is not of the qualified shape, when the translator
\* cannot resolve "G.k" and echoes "G.k", __ returns exactly k.
C4_BareMissReturnsKey ==
    ( /\ call.made
      /\ ~QualifiedShape(call.key)
      /\ call.miss
      /\ call.result = KeyOf(globalTranslationsKey, call.key) )
        => call.ret = call.key

\* A bare, non-empty key missed and came back without the prefix.
C4_Witness ==
    /\ call.made
    /\ ~QualifiedShape(call.key)
    /\ call.key # <<>>
    /\ call.miss
    /\ call.result = KeyOf(globalTranslationsKey, call.key)
    /\ call.ret = call.key

\* C5: for a key that is not of the qualified shape, a translator result that
\* does not start with G followed by a dot is returned unchanged.
C5_BareHitUnchanged ==
    ( /\ call.made
      /\ ~QualifiedShape(call.key)
      /\ ~HasAt(call.result, 1, globalTranslationsKey \o DOT) )
        => call.ret = call.result

\* C6: for a key of the qualified shape, __ hands the key and the arguments to
\* the translator as they are and returns its result unchanged.
C6_QualifiedDelegates ==
    (call.made /\ QualifiedShape(call.key)) =>
        /\ call.getKey = call.key
        /\ call.getArgs = call.args
        /\ call.ret = call.result

\* A qualified key missed and its echo, which starts with the global key, was
\* returned whole.
C6_Witness ==
    /\ call.made
    /\ QualifiedShape(call.key)
    /\ call.miss
    /\ HasAt(call.result, 1, globalTranslationsKey)
    /\ call.ret = call.key

====
